---- MODULE Spec2Model ----
\* Model of package redo (andy.dev/redo): the retry loop FnCtx, the policy
\* defaults, the error wrappers and the backoff iterator it pulls delays from.
\*
\* Durations are whole ticks of one second.  Floating point values of the
\* backoff iterator are fixed point numbers with two decimals (x100).
EXTENDS Integers, Naturals, Sequences, FiniteSets, TLC

\* ---------------------------------------------------------------------------
\* Bounds of the model
\* ---------------------------------------------------------------------------

\* Attempts after which the model stops following a run (caps unbounded runs).
MaxAttempts == 4

\* Largest configured MaxTries besides the "unset" (0) and "unbounded" (-1) ones.
MaxTriesBound == 3

\* Longest list of options passed to a retrier.
MaxOptions == 3

\* Most calls of one backoff iterator.
MaxCalls == 8

\* ---------------------------------------------------------------------------
\* Program constants
\* ---------------------------------------------------------------------------

DefaultInitialDelay == 1

DefaultMaxDelay == 1200

DefaultMaxTries == 10

\* math.MaxInt64 as a duration, at the width the model gives to durations.
MaxInt64 == 1000000

\* float64(math.MaxInt64) - 1, x100
maxintf == (MaxInt64 - 1) * 100

\* ---------------------------------------------------------------------------
\* Errors.  An error value is a chain of wrappers around a base error; the nil
\* error is a value of its own.
\* ---------------------------------------------------------------------------

Nil == [wraps |-> <<>>, base |-> "nil", refr |-> ""]

Plain(name) == [wraps |-> <<>>, base |-> name, refr |-> ""]

Canceled == Plain("Canceled")

DeadlineExceeded == Plain("DeadlineExceeded")

\* errors.Is(e, target) for a base (sentinel) target: walks the Unwrap chain,
\* and both children of a RefreshError.
ErrorsIs(e, target) ==
    /\ e # Nil
    /\ target.wraps = <<>>
    /\ (e.base = target.base \/ e.refr = target.base)

\* Unwrap of haltErr / exhaustedErr; nil for an error that wraps nothing and
\* for a RefreshError, whose Unwrap returns a slice.
Unwrap(e) ==
    IF e.wraps = <<>> \/ Head(e.wraps) = "refresh" THEN Nil
    ELSE [e EXCEPT !.wraps = Tail(@)]

Halted(e) == e.wraps # <<>> /\ Head(e.wraps) = "halt"

Exhausted(e) == e.wraps # <<>> /\ Head(e.wraps) = "exhausted"

Halt(e) == [e EXCEPT !.wraps = <<"halt">> \o @]

errExhausted(e) == [e EXCEPT !.wraps = <<"exhausted">> \o @]

\* Variant of errRefresh that keeps the refresh failure only.
errRefresh_dropsRetryErr(refreshErr, retryErr) ==
    [wraps |-> <<"refresh">>, base |-> refreshErr.base, refr |-> ""]

\* errRefresh(refreshErr, retryErr): a RefreshError over the refresh
\* function's (sentinel) error and the error that triggered the retry.
errRefresh(refreshErr, retryErr) ==
    [wraps |-> <<"refresh">> \o retryErr.wraps, base |-> retryErr.base,
     refr |-> refreshErr.base]

\* (*RefreshError).RetryErr
RetryErr(e) == [wraps |-> Tail(e.wraps), base |-> e.base, refr |-> ""]

\* ---------------------------------------------------------------------------
\* The controlling context
\* ---------------------------------------------------------------------------

LiveCtx == [err |-> Nil, cause |-> Nil]

\* The ways a context ends: cancel(), cancel(cause), deadline.
CancelledCtxs ==
    { [err |-> Canceled, cause |-> Canceled],
      [err |-> Canceled, cause |-> Plain("why")],
      [err |-> DeadlineExceeded, cause |-> DeadlineExceeded] }

\* Variant of Cause that reads ctx.Err() instead of the recorded cause.
Cause_ctxErr(c) == c.err

\* context.Cause(ctx): nil while the context is live.
Cause(c) == c.cause

\* ---------------------------------------------------------------------------
\* Options
\* ---------------------------------------------------------------------------

\* haltFn is <<>> when nil and <<S>> for HaltErrors(S...).
HaltFns == { <<>>, <<{"fatal"}>>, <<{"fatal", "DeadlineExceeded"}>> }

\* The configured (initialDelay, maxDelay) pairs: unset, negative, ordinary,
\* and an initialDelay above DefaultMaxDelay.
DelayPairs ==
    { <<0, 0>>, <<0, 3>>, <<2, 0>>, <<2, 3>>, <<-1, -1>>, <<DefaultMaxDelay + 1, 0>> }

\* The options as the option functions leave them, before applyDefaults.
RawOpts ==
    { [ initialDelay |-> p[1],
        maxDelay     |-> p[2],
        maxTries     |-> n,
        firstFast    |-> ff,
        eachFn       |-> ef,
        haltFn       |-> hf,
        noCause      |-> nc ] :
      p \in DelayPairs, n \in (-1 .. MaxTriesBound), ff \in BOOLEAN,
      ef \in BOOLEAN, hf \in HaltFns, nc \in BOOLEAN }

\* Variant of applyDefaults that also replaces a negative maxTries.
applyDefaults_nonPositive(ro) ==
    LET id == IF ro.initialDelay <= 0 THEN DefaultInitialDelay ELSE ro.initialDelay
        md == IF ro.maxDelay <= 0
              THEN (IF id > DefaultMaxDelay THEN id ELSE DefaultMaxDelay)
              ELSE ro.maxDelay
        mt == IF ro.maxTries <= 0 THEN DefaultMaxTries ELSE ro.maxTries
    IN [ro EXCEPT !.initialDelay = id, !.maxDelay = md, !.maxTries = mt]

\* Variant of applyDefaults whose default maxDelay ignores initialDelay.
applyDefaults_fixedMax(ro) ==
    LET id == IF ro.initialDelay <= 0 THEN DefaultInitialDelay ELSE ro.initialDelay
        md == IF ro.maxDelay <= 0 THEN DefaultMaxDelay ELSE ro.maxDelay
        mt == IF ro.maxTries = 0 THEN DefaultMaxTries ELSE ro.maxTries
    IN [ro EXCEPT !.initialDelay = id, !.maxDelay = md, !.maxTries = mt]

applyDefaults(ro) ==
    LET id == IF ro.initialDelay <= 0 THEN DefaultInitialDelay ELSE ro.initialDelay
        md == IF ro.maxDelay <= 0
              THEN (IF id > DefaultMaxDelay THEN id ELSE DefaultMaxDelay)
              ELSE ro.maxDelay
        mt == IF ro.maxTries = 0 THEN DefaultMaxTries ELSE ro.maxTries
    IN [ro EXCEPT !.initialDelay = id, !.maxDelay = md, !.maxTries = mt]

\* opts := &opts{}
ZeroOpts ==
    [ initialDelay |-> 0, maxDelay |-> 0, maxTries |-> 0, firstFast |-> FALSE,
      eachFn |-> FALSE, haltFn |-> <<>>, noCause |-> FALSE ]

\* A Policy with every field set.
FullPolicy ==
    [ initialDelay |-> 2, maxDelay |-> 3, maxTries |-> 2, firstFast |-> TRUE,
      eachFn |-> TRUE, haltFn |-> <<{"fatal"}>>, noCause |-> TRUE ]

\* An option: its constructor and the constructor's argument (d a duration,
\* n a count, b a flag or "the function is not nil", h a halt predicate, p a
\* Policy); the arguments a constructor does not take are zero.
Opt(kind, d, n, b, h, p) == [kind |-> kind, d |-> d, n |-> n, b |-> b, h |-> h, p |-> p]

Options ==
    { Opt("InitialDelay", d, 0, FALSE, <<>>, ZeroOpts) : d \in {0, 2} }
      \cup { Opt("MaxDelay", d, 0, FALSE, <<>>, ZeroOpts) : d \in {0, 3} }
      \cup { Opt("MaxTries", 0, n, FALSE, <<>>, ZeroOpts) : n \in {-1, 0, 2} }
      \cup { Opt("FirstFast", 0, 0, b, <<>>, ZeroOpts) : b \in BOOLEAN }
      \cup { Opt("HaltFn", 0, 0, FALSE, h, ZeroOpts) : h \in {<<>>, <<{"fatal"}>>} }
      \cup { Opt("Each", 0, 0, b, <<>>, ZeroOpts) : b \in BOOLEAN }
      \cup { Opt("CtxCause", 0, 0, b, <<>>, ZeroOpts) : b \in BOOLEAN }
      \cup { Opt("WithPolicy", 0, 0, FALSE, <<>>, p) : p \in {ZeroOpts, FullPolicy} }

\* Variant of ApplyOption whose WithPolicy keeps the fields the policy leaves zero.
ApplyOption_policyMerge(o, opt) ==
    CASE opt.kind = "WithPolicy" ->
             [ initialDelay |-> IF opt.p.initialDelay = 0 THEN o.initialDelay
                                ELSE opt.p.initialDelay,
               maxDelay     |-> IF opt.p.maxDelay = 0 THEN o.maxDelay ELSE opt.p.maxDelay,
               maxTries     |-> IF opt.p.maxTries = 0 THEN o.maxTries ELSE opt.p.maxTries,
               firstFast    |-> opt.p.firstFast,
               eachFn       |-> opt.p.eachFn,
               haltFn       |-> opt.p.haltFn,
               noCause      |-> opt.p.noCause ]
      [] opt.kind = "InitialDelay" -> [o EXCEPT !.initialDelay = opt.d]
      [] opt.kind = "MaxDelay" -> [o EXCEPT !.maxDelay = opt.d]
      [] opt.kind = "MaxTries" -> [o EXCEPT !.maxTries = opt.n]
      [] opt.kind = "FirstFast" -> [o EXCEPT !.firstFast = opt.b]
      [] opt.kind = "HaltFn" -> [o EXCEPT !.haltFn = opt.h]
      [] opt.kind = "Each" -> [o EXCEPT !.eachFn = opt.b]
      [] opt.kind = "CtxCause" -> [o EXCEPT !.noCause = ~opt.b]

\* o(opts): what each option function does to the options.
ApplyOption(o, opt) ==
    CASE opt.kind = "WithPolicy" ->
             [ initialDelay |-> opt.p.initialDelay,
               maxDelay     |-> opt.p.maxDelay,
               maxTries     |-> opt.p.maxTries,
               firstFast    |-> opt.p.firstFast,
               eachFn       |-> opt.p.eachFn,
               haltFn       |-> opt.p.haltFn,
               noCause      |-> opt.p.noCause ]
      [] opt.kind = "InitialDelay" -> [o EXCEPT !.initialDelay = opt.d]
      [] opt.kind = "MaxDelay" -> [o EXCEPT !.maxDelay = opt.d]
      [] opt.kind = "MaxTries" -> [o EXCEPT !.maxTries = opt.n]
      [] opt.kind = "FirstFast" -> [o EXCEPT !.firstFast = opt.b]
      [] opt.kind = "HaltFn" -> [o EXCEPT !.haltFn = opt.h]
      [] opt.kind = "Each" -> [o EXCEPT !.eachFn = opt.b]
      [] opt.kind = "CtxCause" -> [o EXCEPT !.noCause = ~opt.b]

\* opts.haltFn != nil && opts.haltFn(e), for the HaltErrors predicate.
haltFnMatches(o, e) ==
    /\ o.haltFn # <<>>
    /\ \E t \in o.haltFn[1] : ErrorsIs(e, Plain(t))

\* ---------------------------------------------------------------------------
\* backoff.New: the iterator
\* ---------------------------------------------------------------------------

\* rand.Float64() in quarters.
Draws == {0, 2}

\* Variant of Envelope that falls back in the fourth iteration.
Envelope_dip ==
    << <<0, 91, 126, 158>>,
       <<193, 232, 279, 333>>,
       <<397, 473, 564, 671>>,
       <<193, 232, 279, 333>>,
       <<1599, 1902, 2262, 2690>>,
       <<3199, 3805, 4525, 5381>>,
       <<6399, 7610, 9050, 10763>>,
       <<12799, 15221, 18101, 21526>>,
       <<25599, 30443, 36203, 43053>>,
       <<51199, 60887, 72407, 86107>>,
       <<102399, 121774, 144815, 172215>>,
       <<204799, 243549, 289630, 344430>> >>

\* math.Pow(2, t) * math.Tanh(math.Sqrt(smoothing*t)) x100, t = i + q/4.
Envelope ==
    << <<0, 91, 126, 158>>,
       <<193, 232, 279, 333>>,
       <<397, 473, 564, 671>>,
       <<798, 950, 1130, 1344>>,
       <<1599, 1902, 2262, 2690>>,
       <<3199, 3805, 4525, 5381>>,
       <<6399, 7610, 9050, 10763>>,
       <<12799, 15221, 18101, 21526>>,
       <<25599, 30443, 36203, 43053>>,
       <<51199, 60887, 72407, 86107>>,
       <<102399, 121774, 144815, 172215>>,
       <<204799, 243549, 289630, 344430>> >>

\* Variant of backoff whose clamped call stores the raw value in prev.
backoff_clampUpdatesPrev(initial, maxDelay, firstFast, st, q) ==
    IF st.i = 0 /\ firstFast
    THEN [i |-> st.i + 1, prev |-> st.prev, out |-> 0]
    ELSE LET next == Envelope[st.i + 1][q + 1]
             out  == (next - st.prev) * initial
         IN CASE maxDelay > 0 /\ out > maxDelay * 100 ->
                     [i |-> st.i + 1, prev |-> next, out |-> maxDelay]
              [] ~(maxDelay > 0 /\ out > maxDelay * 100) /\ out > maxintf ->
                     [i |-> st.i + 1, prev |-> st.prev, out |-> MaxInt64]
              [] OTHER ->
                     [i |-> st.i + 1, prev |-> next, out |-> out \div 100]

\* Variant of backoff that returns zero at every call when firstFast is set.
backoff_fastAlways(initial, maxDelay, firstFast, st, q) ==
    IF firstFast
    THEN [i |-> st.i + 1, prev |-> st.prev, out |-> 0]
    ELSE LET next == Envelope[st.i + 1][q + 1]
             out  == (next - st.prev) * initial
         IN CASE maxDelay > 0 /\ out > maxDelay * 100 ->
                     [i |-> st.i + 1, prev |-> st.prev, out |-> maxDelay]
              [] ~(maxDelay > 0 /\ out > maxDelay * 100) /\ out > maxintf ->
                     [i |-> st.i + 1, prev |-> st.prev, out |-> MaxInt64]
              [] OTHER ->
                     [i |-> st.i + 1, prev |-> next, out |-> out \div 100]

\* Variant of backoff without the clamp to maxDelay.
backoff_noClamp(initial, maxDelay, firstFast, st, q) ==
    IF st.i = 0 /\ firstFast
    THEN [i |-> st.i + 1, prev |-> st.prev, out |-> 0]
    ELSE LET next == Envelope[st.i + 1][q + 1]
             out  == (next - st.prev) * initial
         IN CASE out > maxintf ->
                     [i |-> st.i + 1, prev |-> st.prev, out |-> MaxInt64]
              [] OTHER ->
                     [i |-> st.i + 1, prev |-> next, out |-> out \div 100]

\* One call of the iterator in state [i, prev] with random draw q.
\* Returns the new state and the delay.
backoff(initial, maxDelay, firstFast, st, q) ==
    IF st.i = 0 /\ firstFast
    THEN [i |-> st.i + 1, prev |-> st.prev, out |-> 0]
    ELSE LET next == Envelope[st.i + 1][q + 1]
             out  == (next - st.prev) * initial
         IN CASE maxDelay > 0 /\ out > maxDelay * 100 ->
                     [i |-> st.i + 1, prev |-> st.prev, out |-> maxDelay]
              [] ~(maxDelay > 0 /\ out > maxDelay * 100) /\ out > maxintf ->
                     [i |-> st.i + 1, prev |-> st.prev, out |-> MaxInt64]
              [] OTHER ->
                     [i |-> st.i + 1, prev |-> next, out |-> out \div 100]

\* ---------------------------------------------------------------------------
\* State of one run of FnCtx
\* ---------------------------------------------------------------------------

VARIABLES
    applied,     \* the options applied so far, in argument order
    ad,          \* the variables of the call adapter around FnCtx
    raw,         \* the options as configured, before applyDefaults
    opts,        \* the resolved options
    ctx,         \* the controlling context
    pc,          \* where the run is: loop, fn, each, select, parked, stop, done,
                 \* blocked
    try,         \* try
    lastErr,     \* lastErr
    delay,       \* delay
    status,      \* status
    bo,          \* the iterator's captured variables i and prev
    timer,       \* t: stopped, armed, fired (a value waits in t.C)
    result,      \* the error FnCtx returned
    invocations, \* calls of fn so far
    inFlight,    \* calls of fn that have not returned
    eachCalls,   \* calls of eachFn so far
    waits,       \* t.Reset calls so far
    ctxAtReturn, \* ctx.Err() at the moment the last call of fn returned
    wake,        \* what woke the run from its last wait: none, ctx, timer
    exit,        \* the return statement the run left by: none, succeeded,
                 \* cancelled, halted, exhausted
    drained      \* the cancellation path received a pending fire from t.C

vars == <<applied, ad, raw, opts, ctx, pc, try, lastErr, delay, status, bo, timer, result,
          invocations, inFlight, eachCalls, waits, ctxAtReturn, wake, exit, drained>>

\* Errors the operation may return.
OpErrors ==
    { Nil, Plain("boom"), Plain("fatal"), Canceled, DeadlineExceeded,
      Halt(Plain("boom")), Halt(Canceled) }

ZeroStatus == [TryNumber |-> 0, MaxTries |-> 0, Err |-> Nil, NextDelay |-> 0]

\* context.WithValue(c, retryCtxKey, st): a context derived from c that
\* carries st.
WithValue(c, st) == [err |-> c.err, cause |-> c.cause, value |-> <<st>>]

\* c.Value(retryCtxKey): empty (nil) when c carries no status.
Value(c) == IF "value" \in DOMAIN c THEN c.value ELSE <<>>

\* Variant of GetStatus that does not look the status up.
GetStatus_alwaysZero(c) == ZeroStatus

GetStatus(c) == IF Value(c) = <<>> THEN ZeroStatus ELSE Value(c)[1]

\* FnCtx called directly: the adapters' variables are not in use.
NoAdapter ==
    [ retrier |-> "FnCtx", refreshFn |-> FALSE, fnArg |-> 0, argSeen |-> 0,
      fnErr |-> Nil, refreshes |-> 0, val |-> 0, out |-> 0, returned |-> FALSE ]

\* The local variables of FnCtx before the loop.
RunInit ==
    /\ try = 0
    /\ lastErr = Nil
    /\ delay = 0
    /\ status = ZeroStatus
    /\ bo = [i |-> 0, prev |-> 0]
    /\ timer = "stopped"
    /\ result = Nil
    /\ invocations = 0
    /\ inFlight = 0
    /\ eachCalls = 0
    /\ waits = 0
    /\ ctxAtReturn = Nil
    /\ wake = "none"
    /\ exit = "none"
    /\ drained = FALSE

\* FnCtx at the top of its loop, the options applied and resolved.
Init ==
    /\ applied = <<>>
    /\ ad = NoAdapter
    /\ raw \in RawOpts
    /\ opts = applyDefaults(raw)
    /\ ctx \in {LiveCtx} \cup CancelledCtxs
    /\ pc = "loop"
    /\ RunInit

\* Variant of Attempt whose snapshot numbers the attempts from zero.
Attempt_zeroBased ==
    /\ pc = "loop"
    /\ try < MaxAttempts \/ try < opts.maxTries
    /\ \E q \in Draws :
         LET r == backoff(opts.initialDelay, opts.maxDelay, opts.firstFast, bo, q)
         IN /\ bo' = [i |-> r.i, prev |-> r.prev]
            /\ delay' = r.out
            /\ status' = [TryNumber |-> try, MaxTries |-> opts.maxTries,
                          Err |-> lastErr, NextDelay |-> r.out]
    /\ pc' = "fn"
    /\ invocations' = invocations + 1
    /\ inFlight' = inFlight + 1
    /\ UNCHANGED <<drained, applied, ad, raw, opts, ctx, try, lastErr, timer, result, eachCalls, waits, ctxAtReturn,
                   wake, exit>>

\* Top of the loop: prefetch the delay, build the status, call fn.
Attempt ==
    /\ pc = "loop"
    /\ try < MaxAttempts \/ try < opts.maxTries
    /\ \E q \in Draws :
         LET r == backoff(opts.initialDelay, opts.maxDelay, opts.firstFast, bo, q)
         IN /\ bo' = [i |-> r.i, prev |-> r.prev]
            /\ delay' = r.out
            /\ status' = [TryNumber |-> try + 1, MaxTries |-> opts.maxTries,
                          Err |-> lastErr, NextDelay |-> r.out]
    /\ pc' = "fn"
    /\ invocations' = invocations + 1
    /\ inFlight' = inFlight + 1
    /\ UNCHANGED <<drained, applied, ad, raw, opts, ctx, try, lastErr, timer, result, eachCalls, waits, ctxAtReturn,
                   wake, exit>>

\* Variant of FnReturn that treats a nil error like a failure.
FnReturn_nilFails(e) ==
    /\ pc = "fn"
    /\ lastErr' = e
    /\ inFlight' = inFlight - 1
    /\ ctxAtReturn' = ctx.err
    /\ pc' = "each"
    /\ status' = [status EXCEPT !.Err = e]
    /\ UNCHANGED <<result, exit>>
    /\ UNCHANGED <<drained, applied, ad, raw, opts, ctx, try, delay, bo, timer, invocations, eachCalls, waits, wake>>

\* lastErr = fn(ctx): the function passed to FnCtx returns e.
Return(e) ==
    /\ lastErr' = e
    /\ inFlight' = inFlight - 1
    /\ ctxAtReturn' = ctx.err
    /\ IF e = Nil
       THEN /\ pc' = "done"
            /\ result' = Nil
            /\ exit' = "succeeded"
            /\ UNCHANGED status
       ELSE /\ pc' = "each"
            /\ status' = [status EXCEPT !.Err = e]
            /\ UNCHANGED <<result, exit>>
    /\ UNCHANGED <<drained, applied, raw, opts, ctx, try, delay, bo, timer, invocations, eachCalls, waits, wake>>

\* rctx := context.WithValue(ctx, retryCtxKey, status): the context the
\* operation is called with.
rctx == WithValue(ctx, status)

\* fn, called by FnCtx directly, returns e.
FnReturn(e) ==
    /\ pc = "fn"
    /\ Return(e)
    /\ UNCHANGED ad

\* Variant of Classify whose exhaustion test is off by one (try > maxTries).
Classify_offByOne(o, c, err, tries) ==
    CASE ErrorsIs(err, Canceled) -> [ret |-> TRUE, kind |-> "cancelled", err |-> Cause(c)]
      [] ~ErrorsIs(err, Canceled) /\ Halted(err) -> [ret |-> TRUE, kind |-> "halted", err |-> err]
      [] ~ErrorsIs(err, Canceled) /\ ~Halted(err) /\ haltFnMatches(o, err) ->
             [ret |-> TRUE, kind |-> "halted", err |-> Halt(err)]
      [] ~ErrorsIs(err, Canceled) /\ ~Halted(err) /\ ~haltFnMatches(o, err)
           /\ o.maxTries > 0 /\ tries = o.maxTries + 1 ->
             [ret |-> TRUE, kind |-> "exhausted", err |-> errExhausted(err)]
      [] OTHER -> [ret |-> FALSE, kind |-> "none", err |-> Nil]

\* Variant of Classify that never exhausts.
Classify_noExhaust(o, c, err, tries) ==
    CASE ErrorsIs(err, Canceled) -> [ret |-> TRUE, kind |-> "cancelled", err |-> Cause(c)]
      [] ~ErrorsIs(err, Canceled) /\ Halted(err) -> [ret |-> TRUE, kind |-> "halted", err |-> err]
      [] ~ErrorsIs(err, Canceled) /\ ~Halted(err) /\ haltFnMatches(o, err) ->
             [ret |-> TRUE, kind |-> "halted", err |-> Halt(err)]
      [] OTHER -> [ret |-> FALSE, kind |-> "none", err |-> Nil]

\* Variant of Classify that does not consult the halt predicate.
Classify_noHaltFn(o, c, err, tries) ==
    CASE ErrorsIs(err, Canceled) -> [ret |-> TRUE, kind |-> "cancelled", err |-> Cause(c)]
      [] ~ErrorsIs(err, Canceled) /\ Halted(err) -> [ret |-> TRUE, kind |-> "halted", err |-> err]
      [] ~ErrorsIs(err, Canceled) /\ ~Halted(err)
           /\ o.maxTries > 0 /\ tries = o.maxTries ->
             [ret |-> TRUE, kind |-> "exhausted", err |-> errExhausted(err)]
      [] OTHER -> [ret |-> FALSE, kind |-> "none", err |-> Nil]

\* Variant of Classify that wraps an error that is already a halt error again.
Classify_rewrap(o, c, err, tries) ==
    CASE ErrorsIs(err, Canceled) -> [ret |-> TRUE, kind |-> "cancelled", err |-> Cause(c)]
      [] ~ErrorsIs(err, Canceled) /\ (Halted(err) \/ haltFnMatches(o, err)) ->
             [ret |-> TRUE, kind |-> "halted", err |-> Halt(err)]
      [] ~ErrorsIs(err, Canceled) /\ ~Halted(err) /\ ~haltFnMatches(o, err)
           /\ o.maxTries > 0 /\ tries = o.maxTries ->
             [ret |-> TRUE, kind |-> "exhausted", err |-> errExhausted(err)]
      [] OTHER -> [ret |-> FALSE, kind |-> "none", err |-> Nil]

\* Variant of Classify that tests exhaustion before the other cases.
Classify_exhaustFirst(o, c, err, tries) ==
    CASE o.maxTries > 0 /\ tries = o.maxTries ->
             [ret |-> TRUE, kind |-> "exhausted", err |-> errExhausted(err)]
      [] ~(o.maxTries > 0 /\ tries = o.maxTries) /\ ErrorsIs(err, Canceled) ->
             [ret |-> TRUE, kind |-> "cancelled", err |-> Cause(c)]
      [] ~(o.maxTries > 0 /\ tries = o.maxTries) /\ ~ErrorsIs(err, Canceled)
           /\ Halted(err) -> [ret |-> TRUE, kind |-> "halted", err |-> err]
      [] ~(o.maxTries > 0 /\ tries = o.maxTries) /\ ~ErrorsIs(err, Canceled)
           /\ ~Halted(err) /\ haltFnMatches(o, err) ->
             [ret |-> TRUE, kind |-> "halted", err |-> Halt(err)]
      [] OTHER -> [ret |-> FALSE, kind |-> "none", err |-> Nil]

\* Variant of Classify whose exhaustion case wraps with Halt.
Classify_exhaustAsHalt(o, c, err, tries) ==
    CASE ErrorsIs(err, Canceled) -> [ret |-> TRUE, kind |-> "cancelled", err |-> Cause(c)]
      [] ~ErrorsIs(err, Canceled) /\ Halted(err) ->
             [ret |-> TRUE, kind |-> "halted", err |-> err]
      [] ~ErrorsIs(err, Canceled) /\ ~Halted(err) /\ haltFnMatches(o, err) ->
             [ret |-> TRUE, kind |-> "halted", err |-> Halt(err)]
      [] ~ErrorsIs(err, Canceled) /\ ~Halted(err) /\ ~haltFnMatches(o, err)
           /\ o.maxTries > 0 /\ tries = o.maxTries ->
             [ret |-> TRUE, kind |-> "exhausted", err |-> Halt(err)]
      [] OTHER -> [ret |-> FALSE, kind |-> "none", err |-> Nil]

\* Variant of Classify that also ends the run on context.DeadlineExceeded.
Classify_deadline(o, c, err, tries) ==
    LET cancelled == ErrorsIs(err, Canceled) \/ ErrorsIs(err, DeadlineExceeded)
    IN CASE cancelled -> [ret |-> TRUE, kind |-> "cancelled", err |-> Cause(c)]
         [] ~cancelled /\ Halted(err) -> [ret |-> TRUE, kind |-> "halted", err |-> err]
         [] ~cancelled /\ ~Halted(err) /\ haltFnMatches(o, err) ->
                [ret |-> TRUE, kind |-> "halted", err |-> Halt(err)]
         [] ~cancelled /\ ~Halted(err) /\ ~haltFnMatches(o, err)
              /\ o.maxTries > 0 /\ tries = o.maxTries ->
                [ret |-> TRUE, kind |-> "exhausted", err |-> errExhausted(err)]
         [] OTHER -> [ret |-> FALSE, kind |-> "none", err |-> Nil]

\* The switch after a failed attempt: "return" with the error returned, or
\* "wait" when no case matches.
Classify(o, c, err, tries) ==
    CASE ErrorsIs(err, Canceled) -> [ret |-> TRUE, kind |-> "cancelled", err |-> Cause(c)]
      [] ~ErrorsIs(err, Canceled) /\ Halted(err) -> [ret |-> TRUE, kind |-> "halted", err |-> err]
      [] ~ErrorsIs(err, Canceled) /\ ~Halted(err) /\ haltFnMatches(o, err) ->
             [ret |-> TRUE, kind |-> "halted", err |-> Halt(err)]
      [] ~ErrorsIs(err, Canceled) /\ ~Halted(err) /\ ~haltFnMatches(o, err)
           /\ o.maxTries > 0 /\ tries = o.maxTries ->
             [ret |-> TRUE, kind |-> "exhausted", err |-> errExhausted(err)]
      [] OTHER -> [ret |-> FALSE, kind |-> "none", err |-> Nil]

\* Variant of Failed that resets the timer before the switch.
Failed_armFirst ==
    /\ pc = "each"
    /\ eachCalls' = IF opts.eachFn THEN eachCalls + 1 ELSE eachCalls
    /\ try' = try + 1
    /\ timer' = "armed"
    /\ waits' = waits + 1
    /\ LET d == Classify(opts, ctx, lastErr, try + 1)
       IN IF d.ret
          THEN /\ pc' = "done"
               /\ result' = d.err
               /\ exit' = d.kind
          ELSE /\ pc' = "select"
               /\ UNCHANGED <<result, exit>>
    /\ UNCHANGED <<drained, applied, ad, raw, opts, ctx, lastErr, delay, status, bo, invocations, inFlight, ctxAtReturn,
                   wake>>

\* Variant of Failed that pulls a new delay for the wait.
Failed_repull ==
    /\ pc = "each"
    /\ eachCalls' = IF opts.eachFn THEN eachCalls + 1 ELSE eachCalls
    /\ try' = try + 1
    /\ LET d == Classify(opts, ctx, lastErr, try + 1)
       IN IF d.ret
          THEN /\ pc' = "done"
               /\ result' = d.err
               /\ exit' = d.kind
               /\ UNCHANGED <<timer, waits, bo, delay>>
          ELSE /\ pc' = "select"
               /\ timer' = "armed"
               /\ waits' = waits + 1
               /\ \E q \in Draws :
                    LET r == backoff(opts.initialDelay, opts.maxDelay, opts.firstFast, bo, q)
                    IN bo' = [i |-> r.i, prev |-> r.prev] /\ delay' = r.out
               /\ UNCHANGED <<result, exit>>
    /\ UNCHANGED <<drained, applied, ad, raw, opts, ctx, lastErr, status, invocations, inFlight, ctxAtReturn,
                   wake>>

\* Variant of Failed that calls the observer only when the failure is retried.
Failed_eachOnRetry ==
    /\ pc = "each"
    /\ try' = try + 1
    /\ LET d == Classify(opts, ctx, lastErr, try + 1)
       IN IF d.ret
          THEN /\ pc' = "done"
               /\ result' = d.err
               /\ exit' = d.kind
               /\ UNCHANGED <<timer, waits, eachCalls>>
          ELSE /\ pc' = "select"
               /\ timer' = "armed"
               /\ waits' = waits + 1
               /\ eachCalls' = IF opts.eachFn THEN eachCalls + 1 ELSE eachCalls
               /\ UNCHANGED <<result, exit>>
    /\ UNCHANGED <<drained, applied, ad, raw, opts, ctx, lastErr, delay, status, bo, invocations, inFlight, ctxAtReturn,
                   wake>>

\* After a failed attempt: the observer, try++, the switch, t.Reset(delay).
Failed ==
    /\ pc = "each"
    /\ eachCalls' = IF opts.eachFn THEN eachCalls + 1 ELSE eachCalls
    /\ try' = try + 1
    /\ LET d == Classify(opts, ctx, lastErr, try + 1)
       IN IF d.ret
          THEN /\ pc' = "done"
               /\ result' = d.err
               /\ exit' = d.kind
               /\ UNCHANGED <<timer, waits>>
          ELSE /\ pc' = "select"
               /\ timer' = "armed"
               /\ waits' = waits + 1
               /\ UNCHANGED <<result, exit>>
    /\ UNCHANGED <<drained, applied, ad, raw, opts, ctx, lastErr, delay, status, bo, invocations, inFlight, ctxAtReturn,
                   wake>>

\* Entering the select: a ready case is taken, one of them when both are
\* ready; with none ready the goroutine parks.
Select ==
    /\ pc = "select"
    /\ wake' = "none"
    /\ \/ /\ ctx.err # Nil
          /\ pc' = "stop"
          /\ UNCHANGED timer
       \/ /\ timer = "fired"
          /\ pc' = "loop"
          /\ timer' = "stopped"
       \/ /\ ctx.err = Nil
          /\ timer # "fired"
          /\ pc' = "parked"
          /\ UNCHANGED timer
    /\ UNCHANGED <<drained, applied, ad, raw, opts, ctx, try, lastErr, delay, status, bo, result,
                   invocations, inFlight, eachCalls, waits, ctxAtReturn, exit>>

\* The controlling context is cancelled or its deadline passes; a run parked
\* in the select wakes on ctx.Done().
Cancel(c) ==
    /\ pc # "done"
    /\ ctx.err = Nil
    /\ ctx' = c
    /\ pc' = IF pc = "parked" THEN "stop" ELSE pc
    /\ wake' = IF pc = "parked" THEN "ctx" ELSE wake
    /\ UNCHANGED <<drained, applied, ad, raw, opts, try, lastErr, delay, status, bo, timer, result,
                   invocations, inFlight, eachCalls, waits, ctxAtReturn, exit>>

\* Variant of TimerFire whose fire does not wake a run parked in the select.
TimerFire_lostWakeup ==
    /\ timer = "armed"
    /\ timer' = "fired"
    /\ UNCHANGED <<pc, wake>>
    /\ UNCHANGED <<drained, applied, ad, raw, opts, ctx, try, lastErr, delay, status, bo, result,
                   invocations, inFlight, eachCalls, waits, ctxAtReturn, exit>>

\* The timer fires; a run parked in the select receives from t.C.
TimerFire ==
    /\ timer = "armed"
    /\ IF pc = "parked"
       THEN /\ pc' = "loop"
            /\ timer' = "stopped"
            /\ wake' = "timer"
       ELSE /\ timer' = "fired"
            /\ UNCHANGED <<pc, wake>>
    /\ UNCHANGED <<drained, applied, ad, raw, opts, ctx, try, lastErr, delay, status, bo, result,
                   invocations, inFlight, eachCalls, waits, ctxAtReturn, exit>>

\* Variant of StopTimer that returns without stopping or draining the timer.
StopTimer_noStop ==
    /\ pc = "stop"
    /\ pc' = "done"
    /\ result' = Cause(ctx)
    /\ exit' = "cancelled"
    /\ UNCHANGED <<drained, timer, applied, ad, raw, opts, ctx, try, lastErr, delay, status, bo,
                   invocations, inFlight, eachCalls, waits, ctxAtReturn, wake>>

\* case <-ctx.Done(): t.Stop() stops an armed timer and returns true; on a
\* timer that has fired it returns false and <-t.C receives the pending
\* fire; on a stopped timer it returns false and <-t.C blocks for ever.
StopTimer ==
    /\ pc = "stop"
    /\ IF timer = "stopped"
       THEN /\ pc' = "blocked"
            /\ UNCHANGED <<timer, result, exit, drained>>
       ELSE /\ timer' = "stopped"
            /\ drained' = (timer = "fired")
            /\ pc' = "done"
            /\ result' = Cause(ctx)
            /\ exit' = "cancelled"
    /\ UNCHANGED <<applied, ad, raw, opts, ctx, try, lastErr, delay, status, bo,
                   invocations, inFlight, eachCalls, waits, ctxAtReturn, wake>>

Next ==
    \/ Attempt
    \/ \E e \in OpErrors : FnReturn(e)
    \/ Failed
    \/ Select
    \/ \E c \in CancelledCtxs : Cancel(c)
    \/ TimerFire
    \/ StopTimer

Spec == Init /\ [][Next]_vars

\* ---------------------------------------------------------------------------
\* FnCtx under fair scheduling, the unbounded runs going on past MaxAttempts
\* ---------------------------------------------------------------------------

\* The options of the runs checked for termination.
LiveOpts ==
    { [ initialDelay |-> 2, maxDelay |-> 3, maxTries |-> n, firstFast |-> ff,
        eachFn |-> FALSE, haltFn |-> <<>>, noCause |-> FALSE ] :
        n \in {-1, 2, MaxTriesBound}, ff \in BOOLEAN }

\* The errors fn returns.
LiveErrors == { Nil, Plain("boom"), Halt(Plain("boom")) }

LiveInit ==
    /\ applied = <<>>
    /\ ad = NoAdapter
    /\ raw \in LiveOpts
    /\ opts = applyDefaults(raw)
    /\ ctx = LiveCtx
    /\ pc = "loop"
    /\ RunInit

\* Top of the loop in an attempt after the MaxAttempts-th of a run without
\* maxTries: the attempts are no longer counted (try is not tested when
\* maxTries < 0), and the delay, which decides nothing, is kept.
AttemptCapped ==
    /\ pc = "loop"
    /\ opts.maxTries < 0
    /\ try >= MaxAttempts
    /\ status' = [status EXCEPT !.Err = lastErr]
    /\ pc' = "fn"
    /\ inFlight' = inFlight + 1
    /\ UNCHANGED <<drained, applied, ad, raw, opts, ctx, try, lastErr, delay, bo, timer,
                   result, invocations, eachCalls, waits, ctxAtReturn, wake, exit>>

\* The switch and t.Reset after such an attempt.
FailedCapped ==
    /\ pc = "each"
    /\ opts.maxTries < 0
    /\ try >= MaxAttempts
    /\ LET d == Classify(opts, ctx, lastErr, try)
       IN IF d.ret
          THEN /\ pc' = "done"
               /\ result' = d.err
               /\ exit' = d.kind
               /\ UNCHANGED timer
          ELSE /\ pc' = "select"
               /\ timer' = "armed"
               /\ UNCHANGED <<result, exit>>
    /\ UNCHANGED <<drained, applied, ad, raw, opts, ctx, try, lastErr, delay, status, bo,
                   invocations, inFlight, eachCalls, waits, ctxAtReturn, wake>>

\* The select takes case <-ctx.Done().
SelectCtx == Select /\ pc' = "stop"

LiveNext ==
    \/ Attempt
    \/ AttemptCapped
    \/ \E e \in LiveErrors : FnReturn(e)
    \/ (opts.maxTries > 0 \/ try < MaxAttempts) /\ Failed
    \/ FailedCapped
    \/ Select
    \/ \E c \in CancelledCtxs : Cancel(c)
    \/ TimerFire
    \/ StopTimer

\* Every step of the run that can be taken is taken, every call of fn
\* returns, an armed timer fires, and a select with ctx.Done() ready again
\* and again takes it at some time.
LiveFairness ==
    /\ WF_vars(Attempt)
    /\ WF_vars(AttemptCapped)
    /\ WF_vars(\E e \in LiveErrors : FnReturn(e))
    /\ WF_vars(Failed)
    /\ WF_vars(FailedCapped)
    /\ WF_vars(Select)
    /\ WF_vars(TimerFire)
    /\ WF_vars(StopTimer)
    /\ SF_vars(SelectCtx)

SpecLive == LiveInit /\ [][LiveNext]_vars /\ LiveFairness

\* ---------------------------------------------------------------------------
\* The options of a call, applied one by one and then resolved
\* ---------------------------------------------------------------------------

OptInit ==
    /\ applied = <<>>
    /\ ad = NoAdapter
    /\ raw = ZeroOpts
    /\ opts = ZeroOpts
    /\ ctx = LiveCtx
    /\ pc = "options"
    /\ RunInit

\* for _, o := range options { o(opts) }
Option(opt) ==
    /\ pc = "options"
    /\ Len(applied) < MaxOptions
    /\ applied' = Append(applied, opt)
    /\ opts' = ApplyOption(opts, opt)
    /\ raw' = opts'
    /\ UNCHANGED <<drained, ad, ctx, pc, try, lastErr, delay, status, bo, timer, result,
                   invocations, inFlight, eachCalls, waits, ctxAtReturn, wake, exit>>

\* applyDefaults(opts), after the last option.
Resolve ==
    /\ pc = "options"
    /\ opts' = applyDefaults(opts)
    /\ pc' = "loop"
    /\ UNCHANGED <<drained, applied, ad, raw, ctx, try, lastErr, delay, status, bo, timer, result,
                   invocations, inFlight, eachCalls, waits, ctxAtReturn, wake, exit>>

OptNext ==
    \/ \E opt \in Options : Option(opt)
    \/ Resolve

SpecOptions == OptInit /\ [][OptNext]_vars

\* ---------------------------------------------------------------------------
\* backoff.New: an iterator called on its own
\* ---------------------------------------------------------------------------

\* rand.Float64(), to the quarter.
Quarters == 0 .. 3

\* The (initialMedian, maxDelay) pairs the iterator is built with: maxDelay
\* equal to, above and below initialMedian, and no maxDelay.
BackoffPairs ==
    { <<1, 1>>, <<2, 3>>, <<2, 20>>, <<1, DefaultMaxDelay>>, <<5, 3>>, <<2, 0>>,
      <<20000, 0>> }

\* backoff.New(initialMedian, maxDelay, firstFast): var prev float64; var i int
BackoffInit ==
    /\ applied = <<>>
    /\ ad = NoAdapter
    /\ \E p \in BackoffPairs, ff \in BOOLEAN :
          raw = [ZeroOpts EXCEPT !.initialDelay = p[1], !.maxDelay = p[2],
                                 !.firstFast = ff]
    /\ opts = raw
    /\ ctx = LiveCtx
    /\ pc = "backoff"
    /\ RunInit

\* One call of the iterator.
Pull ==
    /\ pc = "backoff"
    /\ bo.i < MaxCalls
    /\ \E q \in Quarters :
         LET r == backoff(opts.initialDelay, opts.maxDelay, opts.firstFast, bo, q)
         IN /\ bo' = [i |-> r.i, prev |-> r.prev]
            /\ delay' = r.out
    /\ UNCHANGED <<drained, applied, ad, raw, opts, ctx, pc, try, lastErr, status, timer, result,
                   invocations, inFlight, eachCalls, waits, ctxAtReturn, wake, exit>>

BackoffNext == Pull

SpecBackoff == BackoffInit /\ [][BackoffNext]_vars

\* ---------------------------------------------------------------------------
\* FnInCtxRefr: the operation takes an input that a refresh function renews
\* ---------------------------------------------------------------------------

\* The options of the runs with a refresh function.
RefrOpts ==
    { [ initialDelay |-> 2, maxDelay |-> 3, maxTries |-> n, firstFast |-> FALSE,
        eachFn |-> FALSE, haltFn |-> hf, noCause |-> FALSE ] :
        n \in {-1, 2, MaxTriesBound}, hf \in { <<>>, <<{"fatal"}>> } }

\* The errors fn returns.
RefrFnErrors == { Nil, Plain("boom"), Plain("fatal"), Canceled, Halt(Plain("boom")) }

\* The errors refreshFn returns.
RefreshErrors == { Nil, Plain("stale"), Plain("fatal"), Canceled }

\* FnInCtxRefr(ctx, fn, fnArg, refreshFn, options...): fnArg is the initial
\* input (0), refreshFn may be nil.
RefrInit ==
    /\ applied = <<>>
    /\ \E rf \in BOOLEAN :
          ad = [NoAdapter EXCEPT !.retrier = "FnInCtxRefr", !.refreshFn = rf]
    /\ raw \in RefrOpts
    /\ opts = applyDefaults(raw)
    /\ ctx = LiveCtx
    /\ pc = "loop"
    /\ RunInit

\* err := fn(ictx, fnArg) returns e: with a failure and a refresh function
\* the closure goes on to refreshFn, else it returns e.
RefrFnReturn(e) ==
    /\ pc = "fn"
    /\ ad' = [ad EXCEPT !.argSeen = ad.fnArg, !.fnErr = e]
    /\ IF e # Nil /\ ad.refreshFn
       THEN /\ pc' = "refresh"
            /\ UNCHANGED <<drained, applied, raw, opts, ctx, try, lastErr, delay, status, bo, timer,
                           result, invocations, inFlight, eachCalls, waits, ctxAtReturn,
                           wake, exit>>
       ELSE Return(e)

\* Variant of RefreshReturn that does not store the refreshed input.
RefreshReturn_dropsInput(refreshErr) ==
    /\ pc = "refresh"
    /\ ad' = [ad EXCEPT !.refreshes = @ + 1]
    /\ IF refreshErr # Nil
       THEN Return(errRefresh(refreshErr, ad.fnErr))
       ELSE Return(ad.fnErr)

\* nArg, refreshErr := refreshFn() returns: a failure makes the closure return
\* errRefresh(refreshErr, err) and leaves fnArg, a success stores the new
\* input and makes the closure return err.
RefreshReturn(refreshErr) ==
    /\ pc = "refresh"
    /\ IF refreshErr # Nil
       THEN /\ ad' = [ad EXCEPT !.refreshes = @ + 1]
            /\ Return(errRefresh(refreshErr, ad.fnErr))
       ELSE /\ ad' = [ad EXCEPT !.refreshes = @ + 1, !.fnArg = ad.refreshes + 1]
            /\ Return(ad.fnErr)

RefrNext ==
    \/ Attempt
    \/ \E e \in RefrFnErrors : RefrFnReturn(e)
    \/ \E r \in RefreshErrors : RefreshReturn(r)
    \/ Failed
    \/ Select
    \/ \E c \in CancelledCtxs : Cancel(c)
    \/ TimerFire
    \/ StopTimer

SpecRefr == RefrInit /\ [][RefrNext]_vars

\* ---------------------------------------------------------------------------
\* FnOutCtx: the operation returns a value and an error
\* ---------------------------------------------------------------------------

\* The options of the runs that return a value.
OutOpts ==
    { [ initialDelay |-> 2, maxDelay |-> 3, maxTries |-> n, firstFast |-> FALSE,
        eachFn |-> FALSE, haltFn |-> hf, noCause |-> FALSE ] :
        n \in {-1, 2, MaxTriesBound}, hf \in { <<>>, <<{"fatal"}>> } }

\* The errors fn returns.
OutFnErrors == { Nil, Plain("boom"), Plain("fatal"), Canceled, Halt(Plain("boom")) }

\* The values invocation k of fn can return: the zero value of OUT, or a
\* value of its own.
OutValues(k) == {0, k}

\* FnOutCtx(ctx, fn, options...): var zero, val OUT; var fnErr error.
OutInit ==
    /\ applied = <<>>
    /\ ad = [NoAdapter EXCEPT !.retrier = "FnOutCtx"]
    /\ raw \in OutOpts
    /\ opts = applyDefaults(raw)
    /\ ctx = LiveCtx
    /\ pc = "loop"
    /\ RunInit

\* val, fnErr = fn(ctx); return fnErr
OutFnReturn(v, e) ==
    /\ pc = "fn"
    /\ ad' = [ad EXCEPT !.val = v, !.fnErr = e]
    /\ Return(e)

\* FnCtx has returned err: return zero, err when it is not nil, val, nil
\* when it is.
OutReturn ==
    /\ pc = "done"
    /\ ~ad.returned
    /\ ad' = [ad EXCEPT !.returned = TRUE,
                        !.out = IF result # Nil THEN 0 ELSE ad.val]
    /\ UNCHANGED <<drained, applied, raw, opts, ctx, pc, try, lastErr, delay, status, bo, timer,
                   result, invocations, inFlight, eachCalls, waits, ctxAtReturn, wake,
                   exit>>

OutNext ==
    \/ Attempt
    \/ \E e \in OutFnErrors : \E v \in OutValues(invocations) : OutFnReturn(v, e)
    \/ Failed
    \/ Select
    \/ \E c \in CancelledCtxs : Cancel(c)
    \/ TimerFire
    \/ StopTimer
    \/ OutReturn

SpecOut == OutInit /\ [][OutNext]_vars

\* ---------------------------------------------------------------------------
\* Properties
\* ---------------------------------------------------------------------------

\* The error is (or wraps) context.Canceled.
IsCancellation(e) == e # Nil /\ (e.base = "Canceled" \/ e.refr = "Canceled")

\* The error is a halt error, as returned by Halt.
IsHaltErr(e) == e.wraps # <<>> /\ e.wraps[1] = "halt"

\* The error is an exhausted error.
IsExhaustedErr(e) == e.wraps # <<>> /\ e.wraps[1] = "exhausted"

\* The configured halt predicate returns true for the error.
PredicateMatches(e) ==
    /\ opts.haltFn # <<>>
    /\ e # Nil
    /\ (e.base \in opts.haltFn[1] \/ e.refr \in opts.haltFn[1])

\* An ordinary failure: not nil, no cancellation, no halt error, and no halt
\* predicate matching it.
Ordinary(e) ==
    /\ e # Nil
    /\ ~IsCancellation(e)
    /\ ~IsHaltErr(e)
    /\ ~PredicateMatches(e)

\* The error without its outermost wrapper.
Inner(e) == [e EXCEPT !.wraps = Tail(@)]

\* C1: with maxTries = N > 0, a live context and an operation whose every call
\* fails with an ordinary error, the run ends after exactly N invocations and N
\* observer calls with an Exhausted error that unwraps to the N-th error.
C1_ExhaustedAfterN ==
    (pc = "done" /\ ctx.err = Nil /\ opts.maxTries > 0 /\ Ordinary(lastErr))
        => /\ invocations = opts.maxTries
           /\ eachCalls = (IF opts.eachFn THEN opts.maxTries ELSE 0)
           /\ IsExhaustedErr(result)
           /\ Inner(result) = lastErr

C1_Witness ==
    /\ pc = "done" /\ ctx.err = Nil /\ opts.maxTries = MaxTriesBound
    /\ Ordinary(lastErr) /\ opts.eachFn
    /\ invocations = MaxTriesBound /\ eachCalls = MaxTriesBound
    /\ IsExhaustedErr(result)

\* C2: when maxTries is positive the number of invocations never exceeds it,
\* and at most one invocation is in progress at any time.
C2_BoundedSequential ==
    /\ (opts.maxTries > 0 => invocations <= opts.maxTries)
    /\ inFlight \in {0, 1}
    /\ (inFlight = 1 <=> pc = "fn")

C2_Witness ==
    pc = "fn" /\ opts.maxTries = MaxTriesBound /\ invocations = MaxTriesBound /\ inFlight = 1

\* C3: an invocation that returns nil ends the run with nil at once: no
\* observer call for that attempt, no wait started, no further invocation; a
\* first-call success is 1 invocation, 0 observer calls, 0 waits.
C3_SuccessReturnsAtOnce ==
    /\ [][(pc = "fn" /\ pc' # "fn" /\ lastErr' = Nil)
            => /\ pc' = "done"
               /\ result' = Nil
               /\ eachCalls' = eachCalls
               /\ waits' = waits
               /\ timer' = timer]_vars
    /\ [][pc = "done" => (pc' = "done" /\ invocations' = invocations)]_vars
    /\ []((pc = "done" /\ lastErr = Nil)
            => /\ result = Nil
               /\ eachCalls = (IF opts.eachFn THEN invocations - 1 ELSE 0)
               /\ waits = invocations - 1
               /\ timer = "stopped")

C3_Witness ==
    pc = "done" /\ lastErr = Nil /\ invocations = 1 /\ eachCalls = 0 /\ waits = 0
        /\ opts.eachFn

\* C4: when the halt predicate matches the error of attempt k (neither a
\* cancellation nor a halt error), the run ends at attempt k with k
\* invocations, no wait after it, and a Halted error that unwraps to it.
C4_HaltPredicateEndsRun ==
    (pc = "done" /\ PredicateMatches(lastErr) /\ ~IsCancellation(lastErr)
       /\ ~IsHaltErr(lastErr))
        => /\ IsHaltErr(result)
           /\ Inner(result) = lastErr
           /\ invocations = try
           /\ waits = invocations - 1
           /\ timer = "stopped"

C4_Witness ==
    /\ pc = "done" /\ PredicateMatches(lastErr) /\ ~IsHaltErr(lastErr)
    /\ invocations = 1 /\ waits = 0 /\ IsHaltErr(result)

\* C5 as stated: whenever the operation returns a halt error, the run returns
\* that same error unchanged.
C5_Original ==
    (pc = "done" /\ IsHaltErr(lastErr))
        => /\ result = lastErr
           /\ waits = invocations - 1

\* C5 amended: when the operation returns a halt error that does not wrap
\* context.Canceled, the run ends at that attempt, with no wait, and returns
\* that same error unchanged, Halted and not Exhausted.
C5_HaltErrReturnedUnchanged ==
    (pc = "done" /\ IsHaltErr(lastErr) /\ ~IsCancellation(lastErr))
        => /\ result = lastErr
           /\ IsHaltErr(result)
           /\ ~IsExhaustedErr(result)
           /\ invocations = try
           /\ waits = invocations - 1

C5_Witness ==
    /\ pc = "done" /\ IsHaltErr(lastErr) /\ ~IsCancellation(lastErr)
    /\ result = lastErr /\ invocations = 2

C8_NoInvocationAfterCancel ==
    (pc = "fn" /\ invocations >= 2) => ctxAtReturn = Nil

\* C9 as stated, for the runs whose operation never asks to halt: a run that
\* returns an error while its context is cancelled or past its deadline
\* returns the context's cause, and never an Exhausted error.
C9_CancelledNeverExhausted ==
    (pc = "done" /\ result # Nil /\ ctx.err # Nil /\ Ordinary(lastErr))
        => /\ result = ctx.cause
           /\ ~IsExhaustedErr(result)
           /\ ~IsHaltErr(result)

C11_CancellationErrorsAlwaysEnd ==
    pc = "select" => lastErr.base \notin {"Canceled", "DeadlineExceeded"}

\* C12 as stated: a run ended by the cancellation of its context returns the
\* recorded cause when cause extraction is enabled and the raw ctx.Err() when
\* it is disabled.
C12_CauseExtractionSetting ==
    (pc = "done" /\ ctx.err # Nil
       /\ (wake = "ctx" \/ (lastErr = Canceled /\ ctx.err = Canceled)))
        => result = (IF opts.noCause THEN ctx.err ELSE ctx.cause)

\* C13 as stated: the run returns nil exactly when the last invocation
\* returned nil.
C13_NilOnlyOnSuccess ==
    pc = "done" => (result = Nil <=> lastErr = Nil)

C15_Original ==
    (pc = "done" /\ raw.maxTries <= 0) => ~IsExhaustedErr(result)

\* C15 amended: with maxTries configured negative the attempts are unbounded:
\* the run never returns an Exhausted error and only ends by success, halt or
\* cancellation.  (A configured 0 resolves to DefaultMaxTries.)
C15_NegativeUnbounded ==
    raw.maxTries < 0
        => /\ exit # "exhausted"
           /\ ~IsExhaustedErr(result)
           /\ (pc = "done" /\ lastErr # Nil)
                => \/ IsCancellation(lastErr)
                   \/ IsHaltErr(lastErr)
                   \/ PredicateMatches(lastErr)
                   \/ (ctx.err # Nil /\ result = ctx.cause)

C15_Witness ==
    /\ raw.maxTries < 0 /\ try = MaxAttempts /\ pc = "select"
    /\ Ordinary(lastErr) /\ invocations = MaxAttempts

\* C16: the resolved options are the configured ones with initialDelay <= 0
\* replaced by 1s, maxDelay <= 0 by the larger of 20 minutes and the resolved
\* initialDelay, maxTries = 0 by 10, and nothing else changed; both delays are
\* positive, and this holds in every state of the run, so the loop never
\* changes them.
C16_PolicyResolution ==
    LET id == IF raw.initialDelay <= 0 THEN DefaultInitialDelay ELSE raw.initialDelay
        big == IF id >= DefaultMaxDelay THEN id ELSE DefaultMaxDelay
    IN /\ opts.initialDelay = id
       /\ opts.maxDelay = (IF raw.maxDelay <= 0 THEN big ELSE raw.maxDelay)
       /\ opts.maxTries = (IF raw.maxTries = 0 THEN DefaultMaxTries ELSE raw.maxTries)
       /\ opts.firstFast = raw.firstFast
       /\ opts.eachFn = raw.eachFn
       /\ opts.haltFn = raw.haltFn
       /\ opts.noCause = raw.noCause
       /\ opts.initialDelay > 0
       /\ opts.maxDelay > 0

C16_Witness ==
    /\ raw.initialDelay > DefaultMaxDelay /\ raw.maxDelay <= 0 /\ raw.maxTries = 0
    /\ opts.maxDelay = raw.initialDelay /\ opts.maxTries = DefaultMaxTries
    /\ pc = "done" /\ try = 2

\* The constructors that set a field of the options.
Setters(field) ==
    CASE field = "initialDelay" -> {"InitialDelay", "WithPolicy"}
      [] field = "maxDelay" -> {"MaxDelay", "WithPolicy"}
      [] field = "maxTries" -> {"MaxTries", "WithPolicy"}
      [] field = "firstFast" -> {"FirstFast", "WithPolicy"}
      [] field = "eachFn" -> {"Each", "WithPolicy"}
      [] field = "haltFn" -> {"HaltFn", "WithPolicy"}
      [] field = "noCause" -> {"CtxCause", "WithPolicy"}

\* The value an option gives to a field it sets.
Given(opt, field) ==
    IF opt.kind = "WithPolicy" THEN opt.p[field]
    ELSE CASE field = "initialDelay" -> opt.d
           [] field = "maxDelay" -> opt.d
           [] field = "maxTries" -> opt.n
           [] field = "firstFast" -> opt.b
           [] field = "eachFn" -> opt.b
           [] field = "haltFn" -> opt.h
           [] field = "noCause" -> ~opt.b

\* The value of a field after the applied options: that of the last option
\* in the list that sets the field, the zero value when none does.
LastGiven(field) ==
    LET idx == { i \in 1 .. Len(applied) : applied[i].kind \in Setters(field) }
    IN IF idx = {} THEN ZeroOpts[field]
       ELSE Given(applied[CHOOSE i \in idx : \A j \in idx : j <= i], field)

\* C17: options are applied in argument order and later ones override earlier
\* ones: before the defaults every field has the value given by the last
\* option that sets it, WithPolicy setting all seven fields.
C17_LaterOptionsOverride ==
    \A field \in DOMAIN ZeroOpts : raw[field] = LastGiven(field)

C17_Witness ==
    /\ Len(applied) = 3
    /\ applied[1].kind = "MaxTries" /\ applied[1].n = 2
    /\ applied[2].kind = "WithPolicy" /\ applied[2].p = ZeroOpts
    /\ applied[3].kind = "FirstFast" /\ applied[3].b
    /\ pc = "loop"
    /\ raw.maxTries = 0 /\ raw.firstFast /\ opts.maxTries = DefaultMaxTries

\* The error is a RefreshError.
IsRefreshErr(e) == e.wraps # <<>> /\ e.wraps[1] = "refresh"

C19_RefreshFailureStops ==
    IsRefreshErr(lastErr) => pc # "fn"

\* C20 as stated: a value-returning retrier returns the value produced by
\* the last invocation of the operation, the successful one on success and
\* the final unsuccessful one, with the run's error, on failure.
C20_LastValuesReturned ==
    ad.returned => ad.out = ad.val

C22_ZeroStatusOutsideRetry ==
    /\ GetStatus(ctx) = ZeroStatus
    /\ GetStatus(ctx).TryNumber = 0
    /\ pc = "fn" => /\ GetStatus(rctx) = status
                    /\ GetStatus(rctx).TryNumber = invocations
                    /\ GetStatus(rctx).TryNumber >= 1
                    /\ GetStatus(rctx) # ZeroStatus

C22_Witness ==
    /\ pc = "fn" /\ invocations = 2
    /\ GetStatus(rctx).TryNumber = 2
    /\ GetStatus(rctx).Err = Plain("boom")
    /\ GetStatus(ctx).TryNumber = 0

\* C23: the Each observer is called once for every failed attempt, the
\* terminal one included, and never for a successful one; the call for
\* attempt N comes after attempt N's operation has returned, before the
\* timer is armed and before the next invocation, with a snapshot whose
\* TryNumber is N and whose Err is attempt N's error.
C23_EachPerFailedAttempt ==
    /\ []((opts.eachFn /\ pc \in {"fn", "each"}) => eachCalls = invocations - 1)
    /\ []((opts.eachFn /\ pc \in {"loop", "select", "parked", "stop"})
            => eachCalls = invocations)
    /\ []((opts.eachFn /\ pc = "done")
            => eachCalls = IF lastErr = Nil THEN invocations - 1 ELSE invocations)
    /\ [](~opts.eachFn => eachCalls = 0)
    /\ [][eachCalls' # eachCalls
            => /\ eachCalls' = eachCalls + 1
               /\ pc = "each"
               /\ inFlight = 0
               /\ lastErr # Nil
               /\ status.TryNumber = invocations
               /\ status.Err = lastErr
               /\ timer = "stopped"
               /\ invocations' = invocations]_vars

\* Two failed attempts, the second one terminal, and two observer calls.
C23_Witness ==
    /\ pc = "done" /\ opts.eachFn /\ exit = "halted"
    /\ invocations = 2 /\ eachCalls = 2 /\ waits = 1

\* C24: an iterator built with initialDelay > 0 and maxDelay >= initialDelay
\* returns, at every call and for every draw, a delay d with 0 <= d <= maxDelay.
C24_DelayWithinMax ==
    (opts.initialDelay > 0 /\ opts.maxDelay >= opts.initialDelay /\ bo.i > 0)
        => (0 <= delay /\ delay <= opts.maxDelay)

\* A call clamped to maxDelay after calls that returned less.
C24_Witness ==
    /\ opts.initialDelay = 2 /\ opts.maxDelay = 20 /\ ~opts.firstFast
    /\ bo.i = 5 /\ bo.prev = Envelope[4][3]
    /\ delay = opts.maxDelay

\* The raw envelope value of a call in iteration i with draw q.
RawNext(i, q) == Envelope[i + 1][q + 1]

\* The unscaled sample of a call: (next - prev) * initial, x100.
Sample(i, q) == (RawNext(i, q) - bo.prev) * opts.initialDelay

\* The call that took the iterator from bo to bo' and produced delay' is a
\* call of the normal algorithm with draw q.
NormalCall(q) ==
    IF opts.maxDelay > 0 /\ Sample(bo.i, q) > opts.maxDelay * 100
    THEN bo'.prev = bo.prev /\ delay' = opts.maxDelay
    ELSE IF Sample(bo.i, q) > (MaxInt64 - 1) * 100
         THEN bo'.prev = bo.prev /\ delay' = MaxInt64
         ELSE bo'.prev = RawNext(bo.i, q) /\ delay' = Sample(bo.i, q) \div 100

\* C25: with firstFast the first call of the iterator returns zero, adds one
\* to the iteration counter and leaves prev; every later call is a call of
\* the normal algorithm; attempt 1's snapshot has NextDelay = 0 and the
\* timer of the first wait is set to zero.
C25_FirstFastOnlyFirst ==
    /\ [][(opts.firstFast /\ bo' # bo)
            => /\ bo'.i = bo.i + 1
               /\ bo.i = 0 => (delay' = 0 /\ bo'.prev = bo.prev)
               /\ bo.i > 0 => \E q \in Draws : NormalCall(q)]_vars
    /\ []((opts.firstFast /\ invocations = 1 /\ pc \in {"fn", "each"})
            => (status.NextDelay = 0 /\ status.TryNumber = 1))
    /\ [][(opts.firstFast /\ waits = 0 /\ waits' = 1)
            => (delay = 0 /\ timer' = "armed" /\ invocations = 1)]_vars

\* The second attempt of a firstFast run, with a delay of the normal algorithm.
C25_Witness ==
    /\ opts.firstFast /\ pc = "fn" /\ invocations = 2 /\ waits = 1
    /\ bo.i = 2 /\ bo.prev = Envelope[2][3]
    /\ status.NextDelay = (Envelope[2][3] * opts.initialDelay) \div 100
    /\ status.NextDelay > 0

\* C26: one delay is pulled from the iterator per attempt, before the
\* operation is invoked, and the timer of the wait after attempt k is set to
\* the NextDelay of attempt k's snapshot: nothing pulls or recomputes a delay
\* between the invocation and the wait.
C26_OnePullPerAttempt ==
    /\ [](bo.i = invocations)
    /\ [](invocations >= 1 => status.NextDelay = delay)
    /\ [][bo' # bo
            => /\ pc = "loop" /\ pc' = "fn"
               /\ invocations' = invocations + 1
               /\ status'.NextDelay = delay']_vars
    /\ [][waits' # waits
            => /\ waits' = waits + 1
               /\ timer' = "armed"
               /\ delay' = delay
               /\ status.NextDelay = delay
               /\ status'.NextDelay = delay
               /\ status.TryNumber = invocations]_vars

C26_Witness ==
    /\ pc = "select" /\ waits = 2 /\ invocations = 2 /\ bo.i = 2
    /\ delay > 0 /\ status.NextDelay = delay /\ timer = "armed"

\* C27: a run that ends at attempt k by success, halt, exhaustion or an
\* operation error classified as cancellation has started exactly k-1 waits
\* and returns with the timer stopped; the timer is armed only by a failed
\* attempt that is not terminal.
C27_NoWaitAfterTerminal ==
    /\ []((pc = "done"
            /\ (exit \in {"succeeded", "halted", "exhausted"}
                  \/ (exit = "cancelled" /\ IsCancellation(lastErr))))
            => /\ waits = invocations - 1
               /\ timer = "stopped")
    /\ [][(timer' = "armed" /\ timer # "armed")
            => /\ pc = "each" /\ pc' = "select"
               /\ waits' = waits + 1
               /\ exit' = "none"]_vars
    /\ [][pc' = "done" => waits' = waits]_vars

C27_Witness ==
    /\ pc = "done" /\ exit = "exhausted"
    /\ invocations = 3 /\ waits = 2 /\ timer = "stopped"

\* C28: the run returns with the timer neither armed nor holding an
\* unreceived fire; on the cancellation path the timer is armed or has fired,
\* so that t.Stop() stops it or the receive from t.C finds the pending fire,
\* and the run never blocks in that receive.
C28_TimerReleased ==
    /\ pc = "done" => timer = "stopped"
    /\ pc = "stop" => timer \in {"armed", "fired"}
    /\ pc # "blocked"
    /\ drained => (pc = "done" /\ exit = "cancelled")

\* The timer fired before the cancellation path stopped it, and its fire
\* was received.
C28_Witness ==
    /\ pc = "done" /\ exit = "cancelled" /\ drained
    /\ timer = "stopped" /\ wake = "ctx"

\* C29: every call of the iterator adds exactly one to the iteration
\* counter; prev becomes the call's raw envelope value when the call returns
\* the unclamped sample, and keeps its value on the firstFast zero call, on a
\* call clamped to maxDelay and on a call capped by the overflow backstop.
C29_IteratorState ==
    [][/\ bo'.i = bo.i + 1
       /\ (opts.firstFast /\ bo.i = 0) => (bo'.prev = bo.prev /\ delay' = 0)
       /\ ~(opts.firstFast /\ bo.i = 0) => \E q \in Quarters : NormalCall(q)
       /\ bo'.prev # bo.prev
            => \E q \in Quarters :
                 /\ bo'.prev = RawNext(bo.i, q)
                 /\ delay' = Sample(bo.i, q) \div 100
                 /\ ~(opts.maxDelay > 0 /\ Sample(bo.i, q) > opts.maxDelay * 100)
                 /\ Sample(bo.i, q) <= (MaxInt64 - 1) * 100]_vars

\* A call capped by the backstop: prev is still a value of an earlier
\* iteration.
C29_Witness ==
    /\ pc = "backoff" /\ opts.maxDelay = 0 /\ delay = MaxInt64
    /\ bo.i = 7 /\ bo.prev = Envelope[6][4]

\* C30: with a refresh function, the refresh step runs exactly once after
\* each failed invocation, before the failure is classified, and never after
\* a successful invocation or before the first one; attempt 1 receives the
\* initial input and every invocation receives the input of the most recent
\* successful refresh; without a refresh function there is no refresh step.
C30_RefreshAfterEachFailure ==
    /\ []((ad.refreshFn /\ pc \in {"fn", "refresh"}) => ad.refreshes = invocations - 1)
    /\ []((ad.refreshFn /\ pc \in {"loop", "each", "select", "parked", "stop"})
            => ad.refreshes = invocations)
    /\ []((ad.refreshFn /\ pc = "done")
            => ad.refreshes = IF ad.fnErr = Nil THEN invocations - 1 ELSE invocations)
    /\ [](~ad.refreshFn => (ad.refreshes = 0 /\ ad.fnArg = 0 /\ pc # "refresh"))
    /\ []((pc = "fn" /\ invocations = 1) => ad.fnArg = 0)
    /\ [](invocations = 1 => ad.argSeen = 0)
    /\ [][ad'.refreshes # ad.refreshes
            => /\ ad'.refreshes = ad.refreshes + 1
               /\ pc = "refresh" /\ pc' = "each"
               /\ ad.fnErr # Nil
               /\ try' = try /\ eachCalls' = eachCalls /\ exit' = "none"
               /\ IF IsRefreshErr(lastErr')
                  THEN ad'.fnArg = ad.fnArg
                  ELSE ad'.fnArg = ad'.refreshes]_vars
    /\ [][ad'.fnArg # ad.fnArg => ad'.refreshes # ad.refreshes]_vars
    /\ [][(pc = "fn" /\ pc' # "fn") => ad'.argSeen = ad.fnArg]_vars

\* The third invocation is about to run with the input of the second
\* refresh; the second one ran with the input of the first.
C30_Witness ==
    /\ pc = "fn" /\ ad.refreshFn
    /\ invocations = 3 /\ ad.refreshes = 2
    /\ ad.argSeen = 1 /\ ad.fnArg = 2

\* C31 as stated: with a refresh function, once the operation has returned an
\* error created by Halt the run stops at that attempt, whatever the refresh
\* step returns: it does not go on to a wait or to another invocation.
C31_HaltStopsUnderRefresh ==
    IsHaltErr(ad.fnErr) => pc \notin {"select", "parked", "stop", "loop", "fn"}

\* The last call of the iterator returned maxDelay through the clamp branch:
\* it returned maxDelay and did not store its raw envelope value in prev.
LastCallClamped ==
    /\ bo.i >= 1
    /\ opts.maxDelay > 0
    /\ delay = opts.maxDelay
    /\ ~\E q \in Quarters : bo.prev > 0 /\ bo.prev = RawNext(bo.i - 1, q)

\* C32: clamping is absorbing: after a call that returned maxDelay through
\* the clamp branch, every later call of the same iterator returns maxDelay
\* through the clamp branch too, prev staying frozen.
C32_ClampAbsorbing ==
    [][(LastCallClamped /\ bo' # bo)
         => /\ delay' = opts.maxDelay
            /\ bo'.prev = bo.prev
            /\ bo'.i = bo.i + 1
            /\ \A q \in Quarters : Sample(bo.i, q) > opts.maxDelay * 100]_vars

\* Three clamped calls in a row after two unclamped ones.
C32_Witness ==
    /\ opts.initialDelay = 2 /\ opts.maxDelay = 3 /\ ~opts.firstFast
    /\ bo.i = 5 /\ bo.prev = Envelope[2][1]
    /\ LastCallClamped

\* C33: with maxTries > 0 every run returns at some time; with maxTries < 0
\* a run whose context has been cancelled returns at some time, and when its
\* last attempt failed with an ordinary error what it returns is the
\* cancellation cause.
C33_Termination ==
    /\ (opts.maxTries > 0) ~> (pc = "done")
    /\ (opts.maxTries < 0 /\ ctx.err # Nil)
          ~> /\ pc = "done"
             /\ Ordinary(lastErr) => (exit = "cancelled" /\ result = ctx.cause)

\* An unbounded run, cancelled after MaxAttempts attempts and more, has
\* returned the cause.
C33_Witness ==
    /\ pc = "done" /\ opts.maxTries < 0 /\ try = MaxAttempts
    /\ exit = "cancelled" /\ result = ctx.cause /\ result = Plain("why")
    /\ lastErr = Plain("boom") /\ drained

====
